---- MODULE Spec2Model ----
(***************************************************************************)
(* Model of src/src/toolchain.rs (rustwide): the Toolchain value, its      *)
(* rustup name, and the install / add_component / add_target / uninstall / *)
(* cargo operations, which build one external command each.                *)
(*                                                                         *)
(* Strings are TLA+ strings; format!() is modelled by concatenation (\o).  *)
(* A handler that runs an external command is split at the point where it  *)
(* blocks in Command::run: the first action builds and starts the command, *)
(* the second is the process ending and the handler returning.             *)
(***************************************************************************)
EXTENDS Integers, Sequences, FiniteSets, TLC

VARIABLES
    workspace,    \* the &Workspace handed to every operation
    toolchain,    \* the Toolchain value the caller holds (immutable)
    pc,           \* "idle", or "blocked" inside Command::run
    pending,      \* the handler blocked in Command::run, or NoRun
    calls,        \* the calls the caller has issued, in order, with their results
    invocations,  \* the external invocations the process executor has seen, in order
    cargoBin,     \* the value returned by cargo(), or NoBin
    shown,        \* <<text>> once the toolchain has been formatted with Display
    stored,       \* the persisted record of the toolchain, or NoRecord
    loaded        \* the result of deserializing stored, or NotLoaded

vars ==
    <<workspace, toolchain, pc, pending, calls, invocations, cargoBin,
      shown, stored, loaded>>

dispatchVars == <<pc, pending, calls, invocations, cargoBin>>
dataVars == <<shown, stored, loaded>>

----------------------------------------------------------------------------
(* Bounds and input sets *)

MaxAtoms == 2
MaxCalls == 2

Atoms == {"stable", "-alt"}

RECURSIVE Words(_)
Words(k) ==
    IF k = 0 THEN {""}
    ELSE LET W == Words(k - 1) IN W \cup {w \o a : w \in W, a \in Atoms}

Strings == Words(MaxAtoms)

Workspaces == {"ws1", "ws2"}
ThingNames == {"clippy", "wasm32-wasi"}
UserArgs == {<<"check">>, <<"build", "--release">>}
ProcessFailures == {"nonzero exit", "spawn failure"}
ProcessOutcomes == {"ok"} \cup ProcessFailures
TagInputs == {"dist", "ci", "Dist", "c-i"}
RecordInputs ==
    {[type |-> ty, name |-> n] : ty \in TagInputs, n \in Strings}
    \cup {[type |-> ty, sha |-> s, alt |-> a] :
             ty \in TagInputs, s \in Strings, a \in BOOLEAN}
    \cup {[name |-> n] : n \in Strings}

----------------------------------------------------------------------------
(* The Toolchain enum *)

MAIN_TOOLCHAIN_NAME == "stable"

Dist(name) == [variant |-> "Dist", name |-> name]
CI(sha, alt) == [variant |-> "CI", sha |-> sha, alt |-> alt]

MAIN == Dist(MAIN_TOOLCHAIN_NAME)

Toolchains ==
    {Dist(n) : n \in Strings} \cup {CI(s, a) : s \in Strings, a \in BOOLEAN}

(* rustup_name with the alt arm left out *)
rustup_name_no_suffix(self) ==
    IF self.variant = "Dist" THEN self.name ELSE self.sha

rustup_name(self) ==
    IF self.variant = "Dist" THEN self.name
    ELSE IF self.alt = FALSE THEN self.sha
    ELSE self.sha \o "-alt"

fmt(self) == rustup_name(self)

(* #[derive(Serialize, Deserialize)] with tag = "type": an internally tagged   *)
(* record. rename_all = "kebab-case" names the Dist variant "dist"; the CI    *)
(* variant is renamed "ci" explicitly (kebab-case alone would give "c-i").    *)

(* serialize without the rename of the CI variant *)
serialize_kebab(self) ==
    IF self.variant = "Dist" THEN [type |-> "dist", name |-> self.name]
    ELSE [type |-> "c-i", sha |-> self.sha, alt |-> self.alt]

serialize(self) ==
    IF self.variant = "Dist" THEN [type |-> "dist", name |-> self.name]
    ELSE [type |-> "ci", sha |-> self.sha, alt |-> self.alt]

Decoded(value) == [state |-> "ok", value |-> value]
DecodeError(msg) == [state |-> "err", error |-> msg]

deserialize(rec) ==
    IF "type" \notin DOMAIN rec THEN DecodeError("missing field 'type'")
    ELSE IF rec.type = "dist"
         THEN IF "name" \in DOMAIN rec THEN Decoded(Dist(rec.name))
              ELSE DecodeError("missing field 'name'")
    ELSE IF rec.type = "ci"
         THEN IF "sha" \notin DOMAIN rec THEN DecodeError("missing field 'sha'")
              ELSE IF "alt" \notin DOMAIN rec THEN DecodeError("missing field 'alt'")
              ELSE Decoded(CI(rec.sha, rec.alt))
    ELSE DecodeError("unknown variant '" \o rec.type \o "', expected 'dist' or 'ci'")

----------------------------------------------------------------------------
(* crate::tools and crate::cmd, as far as toolchain.rs uses them *)

RUSTUP == [kind |-> "tool", name |-> "rustup"]
RUSTUP_TOOLCHAIN_INSTALL_MASTER ==
    [kind |-> "tool", name |-> "rustup-toolchain-install-master"]

CargoBin(t) == [kind |-> "cargo", toolchain |-> t]
NoBin == [kind |-> "none"]

CargoBin_name(bin) == "cargo"

Command_args(cmd, args) == [cmd EXCEPT !.args = @ \o args]

(* prepare_command without the "+" of the toolchain override *)
CargoBin_prepare_command_bare(bin, cmd) ==
    Command_args(cmd, <<rustup_name(bin.toolchain)>>)

CargoBin_prepare_command(bin, cmd) ==
    Command_args(cmd, <<"+" \o rustup_name(bin.toolchain)>>)

Runnable_name(bin) ==
    IF bin.kind = "cargo" THEN CargoBin_name(bin) ELSE bin.name

Runnable_prepare_command(bin, cmd) ==
    IF bin.kind = "cargo" THEN CargoBin_prepare_command(bin, cmd) ELSE cmd

Command_new(ws, bin) ==
    Runnable_prepare_command(bin,
        [workspace |-> ws, binary |-> Runnable_name(bin), args |-> <<>>])

with_context(cause, context) == <<context>> \o cause

Ok == [state |-> "ok"]
Err(error) == [state |-> "err", error |-> error]
Pending == [state |-> "pending"]

Run(op, cmd, context) == [kind |-> "run", op |-> op, cmd |-> cmd, context |-> context]
Bail(msg) == [kind |-> "bail", error |-> <<msg>>]
NoRun == [kind |-> "none"]
NoRecord == [by |-> "none"]
NotLoaded == [state |-> "none"]

----------------------------------------------------------------------------
(* The operations of toolchain.rs, up to the point where they block in      *)
(* Command::run: each yields the command it runs and the context it adds   *)
(* to a failure, or the error it bails with.                               *)

init_toolchain_from_dist(ws, name) ==
    Run("install",
        Command_args(Command_new(ws, RUSTUP), <<"toolchain", "install", name>>),
        "unable to install toolchain " \o name \o " via rustup")

(* init_toolchain_from_ci that never pushes "--alt" *)
init_toolchain_from_ci_no_alt(ws, alt, sha) ==
    Run("install",
        Command_args(Command_new(ws, RUSTUP_TOOLCHAIN_INSTALL_MASTER),
                     <<sha, "-c", "cargo">>),
        "unable to install toolchain " \o sha
            \o " via rustup-toolchain-install-master")

init_toolchain_from_ci(ws, alt, sha) ==
    LET args == IF alt THEN <<sha, "-c", "cargo">> \o <<"--alt">>
                       ELSE <<sha, "-c", "cargo">>
    IN Run("install",
           Command_args(Command_new(ws, RUSTUP_TOOLCHAIN_INSTALL_MASTER), args),
           "unable to install toolchain " \o sha
               \o " via rustup-toolchain-install-master")

install(self, ws) ==
    IF self.variant = "Dist" THEN init_toolchain_from_dist(ws, self.name)
    ELSE init_toolchain_from_ci(ws, self.alt, self.sha)

(* add_rustup_thing without the check of the CI variant *)
add_rustup_thing_no_ci_check(self, ws, thing, name) ==
    LET toolchain_name == rustup_name(self)
    IN Run("add_" \o thing,
           Command_args(Command_new(ws, RUSTUP),
                        <<thing, "add", "--toolchain", toolchain_name, name>>),
           "unable to install " \o thing \o " " \o name \o " for toolchain "
               \o toolchain_name \o " via rustup")

add_rustup_thing(self, ws, thing, name) ==
    IF self.variant = "CI"
    THEN Bail("installing " \o thing \o " on CI toolchains is not supported yet")
    ELSE LET toolchain_name == rustup_name(self)
         IN Run("add_" \o thing,
                Command_args(Command_new(ws, RUSTUP),
                             <<thing, "add", "--toolchain", toolchain_name, name>>),
                "unable to install " \o thing \o " " \o name \o " for toolchain "
                    \o toolchain_name \o " via rustup")

add_component(self, ws, name) == add_rustup_thing(self, ws, "component", name)

(* add_target that passes the thing of add_component *)
add_target_as_component(self, ws, name) ==
    LET plan == add_rustup_thing(self, ws, "component", name)
    IN IF plan.kind = "run" THEN [plan EXCEPT !.op = "add_target"] ELSE plan

add_target(self, ws, name) == add_rustup_thing(self, ws, "target", name)

(* uninstall that refuses CI toolchains the way add_rustup_thing does *)
uninstall_dist_only(self, ws) ==
    IF self.variant = "CI"
    THEN Bail("uninstalling CI toolchains is not supported yet")
    ELSE Run("uninstall",
             Command_args(Command_new(ws, RUSTUP),
                          <<"toolchain", "uninstall", rustup_name(self)>>),
             "unable to uninstall toolchain " \o rustup_name(self) \o " via rustup")

(* uninstall that names the main toolchain instead of self *)
uninstall_main(self, ws) ==
    LET name == rustup_name(MAIN)
    IN Run("uninstall",
           Command_args(Command_new(ws, RUSTUP), <<"toolchain", "uninstall", name>>),
           "unable to uninstall toolchain " \o name \o " via rustup")

uninstall(self, ws) ==
    LET name == rustup_name(self)
    IN Run("uninstall",
           Command_args(Command_new(ws, RUSTUP), <<"toolchain", "uninstall", name>>),
           "unable to uninstall toolchain " \o name \o " via rustup")

cargo(self) == CargoBin(self)

----------------------------------------------------------------------------
(* State machine: one caller issuing calls one after another *)

Init ==
    /\ workspace \in Workspaces
    /\ toolchain \in Toolchains
    /\ pc = "idle"
    /\ pending = NoRun
    /\ calls = <<>>
    /\ invocations = <<>>
    /\ cargoBin = NoBin
    /\ shown = <<>>
    /\ stored = NoRecord
    /\ loaded = NotLoaded

(* Command::run: the process is started and the caller blocks. *)
Command_run(op, arg, plan) ==
    /\ calls' = Append(calls, [op |-> op, arg |-> arg, result |-> Pending])
    /\ invocations' = Append(invocations,
           [call |-> Len(calls) + 1, workspace |-> plan.cmd.workspace,
            binary |-> plan.cmd.binary, args |-> plan.cmd.args,
            status |-> "running"])
    /\ pending' = plan
    /\ pc' = "blocked"

(* A call: the handler runs to its bail!, or to Command::run. *)
Call(op, arg, plan) ==
    /\ pc = "idle"
    /\ Len(calls) < MaxCalls
    /\ IF plan.kind = "bail"
       THEN /\ calls' = Append(calls, [op |-> op, arg |-> arg, result |-> Err(plan.error)])
            /\ UNCHANGED <<invocations, pending, pc>>
       ELSE Command_run(op, arg, plan)
    /\ UNCHANGED <<workspace, toolchain, cargoBin, dataVars>>

(* Returns that runs a failed command once more before giving up *)
Returns_retry(op, outcome) ==
    /\ pc = "blocked"
    /\ pending.op = op
    /\ IF outcome # "ok" /\ Cardinality({j \in DOMAIN invocations :
                                      invocations[j].call = Len(calls)}) < 2
       THEN /\ invocations' = Append(
                   [invocations EXCEPT ![Len(invocations)].status = outcome],
                   [invocations[Len(invocations)] EXCEPT !.status = "running"])
            /\ UNCHANGED <<calls, pending, pc>>
       ELSE /\ invocations' = [invocations EXCEPT ![Len(invocations)].status = outcome]
            /\ calls' = [calls EXCEPT ![Len(calls)].result =
                            IF outcome = "ok" THEN Ok
                            ELSE Err(<<pending.context>> \o <<outcome>>)]
            /\ pending' = NoRun
            /\ pc' = "idle"
    /\ UNCHANGED <<workspace, toolchain, cargoBin, dataVars>>

(* The process ends; .with_context(..)?; Ok(()) of the blocked handler. *)
Returns(op, outcome) ==
    /\ pc = "blocked"
    /\ pending.op = op
    /\ invocations' = [invocations EXCEPT ![Len(invocations)].status = outcome]
    /\ calls' = [calls EXCEPT ![Len(calls)].result =
                    IF outcome = "ok" THEN Ok
                    ELSE Err(with_context(<<outcome>>, pending.context))]
    /\ pending' = NoRun
    /\ pc' = "idle"
    /\ UNCHANGED <<workspace, toolchain, cargoBin, dataVars>>

Install == Call("install", <<>>, install(toolchain, workspace))

InstallReturns(outcome) == Returns("install", outcome)

AddComponent(name) ==
    Call("add_component", <<name>>, add_component(toolchain, workspace, name))

AddTarget(name) ==
    Call("add_target", <<name>>, add_target(toolchain, workspace, name))

AddRustupThingReturns(outcome) ==
    Returns("add_component", outcome) \/ Returns("add_target", outcome)

Uninstall == Call("uninstall", <<>>, uninstall(toolchain, workspace))

UninstallReturns(outcome) == Returns("uninstall", outcome)

(* cargo(): builds the CargoBin value, nothing else. *)
Cargo ==
    /\ pc = "idle"
    /\ Len(calls) < MaxCalls
    /\ cargoBin' = cargo(toolchain)
    /\ calls' = Append(calls, [op |-> "cargo", arg |-> <<>>, result |-> Ok])
    /\ UNCHANGED <<workspace, toolchain, pc, pending, invocations, dataVars>>

(* Command::new(&workspace, toolchain.cargo()).args(..).run() by the caller. *)
RunCargo(args) ==
    /\ cargoBin # NoBin
    /\ Call("run_cargo", args,
            Run("run_cargo", Command_args(Command_new(workspace, cargoBin), args), ""))

RunCargoReturns(outcome) ==
    /\ pc = "blocked"
    /\ pending.op = "run_cargo"
    /\ invocations' = [invocations EXCEPT ![Len(invocations)].status = outcome]
    /\ calls' = [calls EXCEPT ![Len(calls)].result =
                    IF outcome = "ok" THEN Ok ELSE Err(<<outcome>>)]
    /\ pending' = NoRun
    /\ pc' = "idle"
    /\ UNCHANGED <<workspace, toolchain, cargoBin, dataVars>>

Next ==
    \/ Install
    \/ \E name \in ThingNames : AddComponent(name)
    \/ \E name \in ThingNames : AddTarget(name)
    \/ Uninstall
    \/ Cargo
    \/ \E args \in UserArgs : RunCargo(args)
    \/ \E outcome \in ProcessOutcomes : InstallReturns(outcome)
    \/ \E outcome \in ProcessOutcomes : AddRustupThingReturns(outcome)
    \/ \E outcome \in ProcessOutcomes : UninstallReturns(outcome)
    \/ \E outcome \in ProcessOutcomes : RunCargoReturns(outcome)

Spec == Init /\ [][Next]_vars

----------------------------------------------------------------------------
(* The toolchain as data: Display and the serde record *)

(* toolchain.to_string() *)
Display ==
    /\ shown' = <<fmt(toolchain)>>
    /\ UNCHANGED <<workspace, toolchain, dispatchVars, stored, loaded>>

(* The toolchain is serialized and the record persisted. *)
Save ==
    /\ stored' = [by |-> "save", rec |-> serialize(toolchain)]
    /\ loaded' = NotLoaded
    /\ UNCHANGED <<workspace, toolchain, dispatchVars, shown>>

(* The persisted record is written by something else. *)
Edit(rec) ==
    /\ stored' = [by |-> "edit", rec |-> rec]
    /\ loaded' = NotLoaded
    /\ UNCHANGED <<workspace, toolchain, dispatchVars, shown>>

(* The persisted record is deserialized. *)
Load ==
    /\ stored # NoRecord
    /\ loaded' = deserialize(stored.rec)
    /\ UNCHANGED <<workspace, toolchain, dispatchVars, shown, stored>>

NextData ==
    \/ Display
    \/ Save
    \/ \E rec \in RecordInputs : Edit(rec)
    \/ Load

SpecData == Init /\ [][NextData]_vars

----------------------------------------------------------------------------
(* Helpers of the properties *)

Contains(s, sub) ==
    \E i \in 1..(Len(s) - Len(sub) + 1) : SubSeq(s, i, i + Len(sub) - 1) = sub

InvocationsOf(i) == {j \in DOMAIN invocations : invocations[j].call = i}

CallsOf(ops) == {i \in DOMAIN calls : calls[i].op \in ops}

IsDist == toolchain.variant = "Dist"
IsCI == toolchain.variant = "CI"
IsAlt == toolchain.variant = "CI" /\ toolchain.alt

(* The words by which a failure context names the operation *)
OperationWords(op) ==
    CASE op = "install" -> "install toolchain"
      [] op = "uninstall" -> "uninstall toolchain"
      [] op = "add_component" -> "install component"
      [] op = "add_target" -> "install target"

(* The toolchain names passed by uninstall and by cargo commands *)
AddressedNames ==
    {invocations[j].args[3] :
        j \in {k \in DOMAIN invocations : calls[invocations[k].call].op = "uninstall"}}
    \cup
    {Tail(invocations[j].args[1]) :
        j \in {k \in DOMAIN invocations : calls[invocations[k].call].op = "run_cargo"}}

(* Same variant and, for CI, same alt flag *)
SameShape(t, u) ==
    /\ t.variant = u.variant
    /\ t.variant = "CI" => t.alt = u.alt

----------------------------------------------------------------------------
(* C1: the Display text of a toolchain is its rustup name: name for Dist,   *)
(* sha for CI without alt, and sha followed by "-alt" for CI with alt.      *)
C1_DisplayIsRustupName ==
    shown # <<>> =>
        /\ shown[1] = rustup_name(toolchain)
        /\ IsDist => shown[1] = toolchain.name
        /\ (IsCI /\ ~toolchain.alt) => shown[1] = toolchain.sha
        /\ IsAlt =>
              /\ Len(shown[1]) = Len(toolchain.sha) + 4
              /\ SubSeq(shown[1], 1, Len(toolchain.sha)) = toolchain.sha
              /\ SubSeq(shown[1], Len(toolchain.sha) + 1, Len(shown[1])) = "-alt"

C1_Witness == shown # <<>> /\ IsAlt /\ toolchain.sha # ""

(* C2: add_component and add_target on a CI toolchain fail with the        *)
(* "not supported yet" message of their thing and run no external command. *)
C2_CIAddUnsupported ==
    IsCI =>
        /\ \A i \in CallsOf({"add_component"}) :
              /\ calls[i].result =
                    Err(<<"installing component on CI toolchains is not supported yet">>)
              /\ InvocationsOf(i) = {}
        /\ \A i \in CallsOf({"add_target"}) :
              /\ calls[i].result =
                    Err(<<"installing target on CI toolchains is not supported yet">>)
              /\ InvocationsOf(i) = {}

C2_Witness ==
    /\ IsCI
    /\ CallsOf({"add_component"}) # {}
    /\ CallsOf({"add_target"}) # {}

(* C3: install runs exactly one external command: rustup toolchain install *)
(* <name> for Dist, rustup-toolchain-install-master <sha> -c cargo for CI, *)
(* with --alt appended for an alt build; it succeeds iff the command does. *)
C3_InstallInvocation ==
    \A i \in CallsOf({"install"}) :
        /\ Cardinality(InvocationsOf(i)) = 1
        /\ \A j \in InvocationsOf(i) :
              /\ IsDist =>
                    /\ invocations[j].binary = "rustup"
                    /\ invocations[j].args = <<"toolchain", "install", toolchain.name>>
              /\ (IsCI /\ ~toolchain.alt) =>
                    /\ invocations[j].binary = "rustup-toolchain-install-master"
                    /\ invocations[j].args = <<toolchain.sha, "-c", "cargo">>
              /\ IsAlt =>
                    /\ invocations[j].binary = "rustup-toolchain-install-master"
                    /\ invocations[j].args = <<toolchain.sha, "-c", "cargo", "--alt">>
              /\ invocations[j].workspace = workspace
              /\ (calls[i].result = Ok) <=> (invocations[j].status = "ok")
              /\ (calls[i].result.state = "err") <=>
                    (invocations[j].status \in ProcessFailures)

C3_Witness ==
    /\ IsAlt
    /\ \E i \in CallsOf({"install"}) : calls[i].result = Ok

(* C4: a failed external command of install, add_component, add_target or  *)
(* uninstall is returned as an error whose context names the operation and *)
(* the rustup name of the toolchain.                                       *)
C4_FailureNamesToolchain ==
    \A i \in CallsOf({"install", "add_component", "add_target", "uninstall"}) :
        \A j \in InvocationsOf(i) :
            invocations[j].status \in ProcessFailures =>
                /\ calls[i].result.state = "err"
                /\ calls[i].result.error[2] = invocations[j].status
                /\ Contains(calls[i].result.error[1], OperationWords(calls[i].op))
                /\ Contains(calls[i].result.error[1], rustup_name(toolchain))

(* C4 without the install of an alt CI build *)
C4_ExceptAltInstall ==
    \A i \in CallsOf({"install", "add_component", "add_target", "uninstall"}) :
        \A j \in InvocationsOf(i) :
            (/\ invocations[j].status \in ProcessFailures
             /\ ~(IsAlt /\ calls[i].op = "install")) =>
                /\ calls[i].result.state = "err"
                /\ calls[i].result.error[2] = invocations[j].status
                /\ Contains(calls[i].result.error[1], OperationWords(calls[i].op))
                /\ Contains(calls[i].result.error[1], rustup_name(toolchain))

(* C5: uninstall runs exactly one external command, rustup toolchain       *)
(* uninstall <rustup name>, for both variants; it never bails.             *)
C5_UninstallInvocation ==
    \A i \in CallsOf({"uninstall"}) :
        /\ Cardinality(InvocationsOf(i)) = 1
        /\ \A j \in InvocationsOf(i) :
              /\ invocations[j].binary = "rustup"
              /\ invocations[j].workspace = workspace
              /\ Len(invocations[j].args) = 3
              /\ SubSeq(invocations[j].args, 1, 2) = <<"toolchain", "uninstall">>
              /\ IsDist => invocations[j].args[3] = toolchain.name
              /\ (IsCI /\ ~toolchain.alt) => invocations[j].args[3] = toolchain.sha
              /\ IsAlt => invocations[j].args[3] = toolchain.sha \o "-alt"

C5_Witness ==
    /\ IsAlt
    /\ \E i \in CallsOf({"uninstall"}) : InvocationsOf(i) # {}

(* C6: on a Dist toolchain add_component runs rustup component add        *)
(* --toolchain <name> <n> and add_target runs rustup target add            *)
(* --toolchain <name> <n>, one command each; the failure contexts differ   *)
(* in the thing only.                                                      *)
C6_AddInvocation ==
    IsDist =>
        /\ \A i \in CallsOf({"add_component"}) :
              /\ Cardinality(InvocationsOf(i)) = 1
              /\ \A j \in InvocationsOf(i) :
                    /\ invocations[j].binary = "rustup"
                    /\ invocations[j].args =
                          <<"component", "add", "--toolchain", toolchain.name>>
                              \o calls[i].arg
                    /\ invocations[j].status \in ProcessFailures =>
                          calls[i].result.error[1] =
                              "unable to install component " \o calls[i].arg[1]
                                  \o " for toolchain " \o toolchain.name \o " via rustup"
        /\ \A i \in CallsOf({"add_target"}) :
              /\ Cardinality(InvocationsOf(i)) = 1
              /\ \A j \in InvocationsOf(i) :
                    /\ invocations[j].binary = "rustup"
                    /\ invocations[j].args =
                          <<"target", "add", "--toolchain", toolchain.name>>
                              \o calls[i].arg
                    /\ invocations[j].status \in ProcessFailures =>
                          calls[i].result.error[1] =
                              "unable to install target " \o calls[i].arg[1]
                                  \o " for toolchain " \o toolchain.name \o " via rustup"

C6_Witness ==
    /\ IsDist
    /\ \E i \in CallsOf({"add_target"}) :
          \E j \in InvocationsOf(i) : invocations[j].status \in ProcessFailures
    /\ \E i \in CallsOf({"add_component"}) : InvocationsOf(i) # {}

(* C7: cargo() runs no external command; a command built from its value    *)
(* has "+" followed by the rustup name as its first argument.              *)
C7_CargoIsLazy ==
    /\ \A i \in CallsOf({"cargo"}) : InvocationsOf(i) = {} /\ calls[i].result = Ok
    /\ (cargoBin # NoBin) <=> (CallsOf({"cargo"}) # {})
    /\ \A j \in DOMAIN invocations :
          (invocations[j].binary = "cargo" \/ calls[invocations[j].call].op = "run_cargo") =>
              /\ invocations[j].binary = "cargo"
              /\ calls[invocations[j].call].op = "run_cargo"
              /\ Len(invocations[j].args) >= 1
              /\ IsDist => invocations[j].args[1] = "+" \o toolchain.name
              /\ (IsCI /\ ~toolchain.alt) => invocations[j].args[1] = "+" \o toolchain.sha
              /\ IsAlt => invocations[j].args[1] = "+" \o toolchain.sha \o "-alt"
              /\ Tail(invocations[j].args) = calls[invocations[j].call].arg

C7_Witness ==
    /\ IsAlt
    /\ \E j \in DOMAIN invocations : invocations[j].binary = "cargo"

(* C8: a serialized toolchain is the record {type: "dist", name} or        *)
(* {type: "ci", sha, alt} and deserializes to the same toolchain; a record *)
(* of another type is rejected.                                            *)
C8_SerdeRoundTrip ==
    /\ stored.by = "save" =>
          /\ IsDist => stored.rec = [type |-> "dist", name |-> toolchain.name]
          /\ IsCI => stored.rec =
                [type |-> "ci", sha |-> toolchain.sha, alt |-> toolchain.alt]
          /\ loaded # NotLoaded => loaded = Decoded(toolchain)
    /\ (/\ loaded # NotLoaded
        /\ "type" \in DOMAIN stored.rec
        /\ stored.rec.type \notin {"dist", "ci"}) => loaded.state = "err"

C8_Witness == stored.by = "save" /\ loaded.state = "ok" /\ IsAlt

C8_WitnessRejected ==
    loaded.state = "err" /\ "type" \in DOMAIN stored.rec /\ stored.rec.type = "c-i"

(* C9: the external commands are seen in the order of the calls that run   *)
(* them; a call runs at most one command and returns only once it has      *)
(* ended, so only the last call can have a command running; a failed       *)
(* command is not run again.                                               *)
C9_SequentialInvocations ==
    /\ \A j, k \in DOMAIN invocations :
          j < k => invocations[j].call < invocations[k].call
    /\ \A i \in DOMAIN calls : Cardinality(InvocationsOf(i)) <= 1
    /\ \A j \in DOMAIN invocations :
          /\ invocations[j].call \in DOMAIN calls
          /\ invocations[j].status = "running" <=>
                calls[invocations[j].call].result = Pending
          /\ invocations[j].status = "running" =>
                /\ j = Len(invocations)
                /\ invocations[j].call = Len(calls)
                /\ pc = "blocked"
          /\ invocations[j].status \in ProcessFailures =>
                calls[invocations[j].call].result.state = "err"
    /\ \A i \in DOMAIN calls : calls[i].result = Pending => InvocationsOf(i) # {}

C9_Witness ==
    /\ Len(invocations) >= 2
    /\ invocations[1].status \in ProcessFailures
    /\ invocations[2].status = "running"

(* C10 as stated: no other toolchain has the rustup name that an uninstall *)
(* or a cargo command of this toolchain passes.                            *)
C10_NameIsInjective ==
    \A u \in Toolchains \ {toolchain} : rustup_name(u) \notin AddressedNames

(* C10 amended: no other toolchain of the same variant and, for CI, the    *)
(* same alt flag has the rustup name that an uninstall or a cargo command  *)
(* of this toolchain passes.                                               *)
C10_NameIsInjectivePerShape ==
    \A u \in Toolchains \ {toolchain} :
        SameShape(toolchain, u) => rustup_name(u) \notin AddressedNames

C10_Witness ==
    /\ toolchain = CI("stable", TRUE)
    /\ AddressedNames = {"stable-alt"}
    /\ \E i \in CallsOf({"uninstall"}) : InvocationsOf(i) # {}
    /\ rustup_name(CI("stable-alt", FALSE)) \in AddressedNames

====
